---- MODULE Spec2Model ----
(***************************************************************************)
(* A model of the meander crate (src/src/lib.rs): random sinusoids, their  *)
(* averages (Meander1D), the D-dimensional Meander, its evaluation and the *)
(* two time-step iterators.                                                *)
(*                                                                         *)
(* f64 is modelled as a floating-point format of radix 2^15 with the range *)
(* of f64 (below 2^1024), a mantissa of up to four limbs, a smallest       *)
(* positive value of 2^-11 and rounding toward zero, together with the     *)
(* infinities and NaN and their IEEE 754 arithmetic.  The sign of zero is  *)
(* not kept.                                                               *)
(*                                                                         *)
(* An operator that stands for a Rust function returning a value and       *)
(* leaving a new state behind returns a record of both.                    *)
(***************************************************************************)
EXTENDS Integers, Sequences, FiniteSets, TLC

(***************************************************************************)
(* Natural numbers of any size: little-endian limb sequences, base Base,   *)
(* without leading zero limbs (so that equal numbers are equal sequences). *)
(***************************************************************************)
Base == 32768

RECURSIVE BigNorm(_)
BigNorm(m) ==
    IF m = <<>> THEN m
    ELSE IF m[Len(m)] = 0 THEN BigNorm(SubSeq(m, 1, Len(m) - 1))
    ELSE m

RECURSIVE BigOfNat(_)
BigOfNat(n) == IF n = 0 THEN <<>> ELSE <<n % Base>> \o BigOfNat(n \div Base)

RECURSIVE BigAddC(_, _, _)
BigAddC(a, b, c) ==
    IF a = <<>> /\ b = <<>> THEN (IF c = 0 THEN <<>> ELSE <<c>>)
    ELSE <<((IF a = <<>> THEN 0 ELSE a[1]) + (IF b = <<>> THEN 0 ELSE b[1]) + c) % Base>>
         \o BigAddC(IF a = <<>> THEN a ELSE Tail(a),
                    IF b = <<>> THEN b ELSE Tail(b),
                    ((IF a = <<>> THEN 0 ELSE a[1]) + (IF b = <<>> THEN 0 ELSE b[1]) + c) \div Base)

BigAdd(a, b) == BigAddC(a, b, 0)

\* -1, 0, 1 as a < b, a = b, a > b, for magnitudes of one length, from limb i down.
RECURSIVE BigCmpFrom(_, _, _)
BigCmpFrom(a, b, i) ==
    IF i = 0 THEN 0
    ELSE IF a[i] < b[i] THEN -1
    ELSE IF a[i] > b[i] THEN 1
    ELSE BigCmpFrom(a, b, i - 1)

BigCmp(a, b) ==
    IF Len(a) < Len(b) THEN -1
    ELSE IF Len(a) > Len(b) THEN 1
    ELSE BigCmpFrom(a, b, Len(a))

\* a - b - br for a >= b + br, limb by limb (br is the borrow).
RECURSIVE BigSubB(_, _, _)
BigSubB(a, b, br) ==
    IF a = <<>> THEN <<>>
    ELSE <<(a[1] - (IF b = <<>> THEN 0 ELSE b[1]) - br) % Base>>
         \o BigSubB(Tail(a), IF b = <<>> THEN b ELSE Tail(b),
                    IF a[1] - (IF b = <<>> THEN 0 ELSE b[1]) - br < 0 THEN 1 ELSE 0)

BigSub(a, b) == BigNorm(BigSubB(a, b, 0))

\* a * c + carry for 0 <= c <= Base.
RECURSIVE BigMulSmallC(_, _, _)
BigMulSmallC(a, c, carry) ==
    IF a = <<>> THEN (IF carry = 0 THEN <<>> ELSE <<carry>>)
    ELSE <<(a[1] * c + carry) % Base>> \o BigMulSmallC(Tail(a), c, (a[1] * c + carry) \div Base)

BigMulSmall(a, c) == IF c = 0 THEN <<>> ELSE BigMulSmallC(a, c, 0)

\* a * b for a and b that are not zero, by the limbs of b.
RECURSIVE BigMulBy(_, _)
BigMulBy(a, b) ==
    BigAdd(BigMulSmall(a, b[1]),
           IF Len(b) = 1 THEN <<>> ELSE <<0>> \o BigMulBy(a, Tail(b)))

BigMul(a, b) ==
    IF a = <<>> \/ b = <<>> THEN <<>>
    ELSE BigMulBy(IF Len(a) < Len(b) THEN b ELSE a, IF Len(a) < Len(b) THEN a ELSE b)

\* Quotient and remainder of a by 0 < c <= Base, from the top limb down: r is
\* the remainder so far and q the limbs of the quotient found so far.
RECURSIVE BigDivModFrom(_, _, _, _, _)
BigDivModFrom(a, c, i, r, q) ==
    IF i = 0 THEN [q |-> BigNorm(q), r |-> r]
    ELSE BigDivModFrom(a, c, i - 1, (r * Base + a[i]) % c, <<(r * Base + a[i]) \div c>> \o q)

BigDivSmall(a, c) == BigDivModFrom(a, c, Len(a), 0, <<>>).q
BigModSmall(a, c) == BigDivModFrom(a, c, Len(a), 0, <<>>).r

(***************************************************************************)
(* f64.  A finite value is                                                 *)
(*     (-1)^neg * mag * Base^sh / 2^FracBits,                              *)
(* with a mantissa `mag` of at most MantLimbs limbs that has neither a     *)
(* leading nor a trailing zero limb, and an exponent sh >= 0.  A result    *)
(* of magnitude Base^MaxLimbs / 2^FracBits = 2^1024 or more is an          *)
(* infinity.                                                               *)
(***************************************************************************)
FracBits == 11
Scale == 2 ^ FracBits
MantLimbs == 4
MaxLimbs == (1024 + FracBits) \div 15

NaN == [k |-> "nan", neg |-> FALSE, mag |-> <<>>, sh |-> 0]
Inf(neg) == [k |-> "inf", neg |-> neg, mag |-> <<>>, sh |-> 0]
Zero == [k |-> "fin", neg |-> FALSE, mag |-> <<>>, sh |-> 0]
\* The f64 of n / 2^FracBits for 0 < n < Base.
Small(n) == [k |-> "fin", neg |-> FALSE, mag |-> <<n>>, sh |-> 0]
One == Small(Scale)
Two == Small(2 * Scale)
Three == Small(3 * Scale)
Ten == Small(10 * Scale)

IsZero(a) == a.k = "fin" /\ a.mag = <<>>

\* The limbs below the first limb of m, from limb i up, that is not zero.
RECURSIVE LowZeros(_, _)
LowZeros(m, i) == IF m[i] # 0 THEN i - 1 ELSE LowZeros(m, i + 1)

\* The f64 of magnitude m * Base^sh without the `drop` lowest limbs of m.
FinDrop(neg, m, sh, drop) ==
    IF Len(m) + sh > MaxLimbs THEN Inf(neg)
    ELSE [k |-> "fin", neg |-> neg, mag |-> SubSeq(m, drop + 1, Len(m)), sh |-> sh + drop]

\* The f64 a result of magnitude m * Base^sh rounds to (m without leading
\* zero limbs): the limbs beyond MantLimbs are cut off, toward zero.
Fin(neg, m, sh) ==
    IF m = <<>> THEN Zero
    ELSE FinDrop(neg, m, sh,
                 LowZeros(m, IF Len(m) > MantLimbs THEN Len(m) - MantLimbs + 1 ELSE 1))

\* The f64 of n / 2^FracBits for an integer -Base < n < Base.
FromRaw(n) ==
    [k |-> "fin", neg |-> n < 0, mag |-> IF n = 0 THEN <<>> ELSE <<IF n < 0 THEN -n ELSE n>>,
     sh |-> 0]

\* The f64 of a natural number given as a magnitude.
FromBig(m) == Fin(FALSE, BigMulSmall(m, Scale), 0)

I32Max == 2147483647
I32Min == -I32Max - 1

\* `i as f64` for an i32 (exact: every i32 is an f64).
FromI32(i) ==
    Fin(i < 0,
        BigMulSmall(IF i >= 0 THEN BigOfNat(i) ELSE BigAdd(BigOfNat(-(i + 1)), <<1>>), Scale),
        0)

\* m * Base^n as a magnitude.
ShiftLimbs(m, n) == [i \in 1..n |-> 0] \o m

FNeg(a) == IF a.k = "nan" \/ IsZero(a) THEN a ELSE [a EXCEPT !.neg = ~a.neg]

\* The sum of two finite values that are not zero, given as signs and
\* magnitudes in units of Base^sh; c compares the magnitudes.
FAddSigned(an, am, bn, bm, sh, c) ==
    Fin(IF an = bn \/ c >= 0 THEN an ELSE bn,
        IF an = bn THEN BigAdd(am, bm)
        ELSE BigSub(IF c >= 0 THEN am ELSE bm, IF c >= 0 THEN bm ELSE am),
        sh)

FAddMag(an, am, bn, bm, sh) == FAddSigned(an, am, bn, bm, sh, BigCmp(am, bm))

\* a + b for finite a, b that are not zero, a with the exponent not below b's.
\* A b wholly below the last limb a result can keep is absorbed.
FAddOrdered(a, b) ==
    IF a.sh - b.sh > MantLimbs THEN a
    ELSE FAddMag(a.neg, ShiftLimbs(a.mag, a.sh - b.sh), b.neg, b.mag, b.sh)

FAdd(a, b) ==
    IF a.k = "nan" \/ b.k = "nan" THEN NaN
    ELSE IF a.k = "inf" THEN (IF b.k = "inf" /\ b.neg # a.neg THEN NaN ELSE a)
    ELSE IF b.k = "inf" THEN b
    ELSE IF IsZero(a) THEN b
    ELSE IF IsZero(b) THEN a
    ELSE FAddOrdered(IF a.sh >= b.sh THEN a ELSE b, IF a.sh >= b.sh THEN b ELSE a)

FSub(a, b) == FAdd(a, FNeg(b))

\* The f64 of magnitude p * Base^sh / 2^FracBits.
FScaled(neg, p, sh) ==
    Fin(neg,
        IF sh > 0 THEN BigMulSmall(p, Base \div Scale) ELSE BigDivSmall(p, Scale),
        IF sh > 0 THEN sh - 1 ELSE 0)

FMul(a, b) ==
    IF a.k = "nan" \/ b.k = "nan" THEN NaN
    ELSE IF a.k = "inf" \/ b.k = "inf" THEN
        (IF IsZero(a) \/ IsZero(b) THEN NaN ELSE Inf(a.neg # b.neg))
    ELSE FScaled(a.neg # b.neg, BigMul(a.mag, b.mag), a.sh + b.sh)

\* a / b for a finite divisor b below 16.0 (2.0, 3.0, a frequency): the only
\* divisors of the program.
FDiv(a, b) ==
    IF a.k = "nan" \/ b.k # "fin" \/ b.sh > 0 \/ Len(b.mag) > 1 THEN NaN
    ELSE IF IsZero(b) THEN (IF IsZero(a) THEN NaN ELSE Inf(a.neg # b.neg))
    ELSE IF a.k = "inf" THEN Inf(a.neg # b.neg)
    ELSE Fin(a.neg # b.neg,
             BigDivSmall(BigMulSmall(IF a.sh > 0 THEN <<0>> \o a.mag ELSE a.mag, Scale),
                         b.mag[1]),
             IF a.sh > 0 THEN a.sh - 1 ELSE 0)

\* f64::recip
FRecip(a) == FDiv(One, a)

\* -1, 0, 1 as |a| < |b|, |a| = |b|, |a| > |b|, for finite a and b.
MagCmp(a, b) ==
    IF Len(a.mag) + a.sh # Len(b.mag) + b.sh
    THEN (IF Len(a.mag) + a.sh < Len(b.mag) + b.sh THEN -1 ELSE 1)
    ELSE BigCmp(ShiftLimbs(a.mag, IF a.sh >= b.sh THEN a.sh - b.sh ELSE 0),
                ShiftLimbs(b.mag, IF a.sh >= b.sh THEN 0 ELSE b.sh - a.sh))

\* -1, 0, 1 as a < b, a = b, a > b, for a and b that are not NaN.
FCmp(a, b) ==
    IF a.k = "inf" THEN (IF b.k = "inf" /\ b.neg = a.neg THEN 0 ELSE IF a.neg THEN -1 ELSE 1)
    ELSE IF b.k = "inf" THEN (IF b.neg THEN 1 ELSE -1)
    ELSE IF a.neg # b.neg THEN (IF a.neg THEN -1 ELSE 1)
    ELSE MagCmp(IF a.neg THEN b ELSE a, IF a.neg THEN a ELSE b)

\* a <= b and a < b on f64: false whenever a NaN is compared.
FLe(a, b) == a.k # "nan" /\ b.k # "nan" /\ FCmp(a, b) <= 0
FLt(a, b) == a.k # "nan" /\ b.k # "nan" /\ FCmp(a, b) < 0

(***************************************************************************)
(* f64::cos.  NaN for an infinite or NaN argument.  A finite argument is   *)
(* reduced modulo 2 * PI to [0, PI / 2] by the symmetries of the cosine,   *)
(* and the cosine there is its Taylor polynomial of degree 8.              *)
(***************************************************************************)
PiRaw == 6434

\* b^e modulo m, by squaring.
RECURSIVE PowMod(_, _, _)
PowMod(b, e, m) ==
    IF e = 0 THEN 1 % m
    ELSE IF e % 2 = 1 THEN (b * PowMod(b, e - 1, m)) % m
    ELSE PowMod((b * b) % m, e \div 2, m)

\* cos(x / 2^FracBits) * 2^FracBits for 0 <= x <= PiRaw / 2.
CosQuadrant(x) ==
    Scale - (((x * x) \div Scale) \div 2)
          + (((((x * x) \div Scale) * ((x * x) \div Scale)) \div Scale) \div 24)
          - (((((((x * x) \div Scale) * ((x * x) \div Scale)) \div Scale)
                 * ((x * x) \div Scale)) \div Scale) \div 720)
          + (((((((x * x) \div Scale) * ((x * x) \div Scale)) \div Scale)
                 * ((((x * x) \div Scale) * ((x * x) \div Scale)) \div Scale)) \div Scale)
             \div 40320)

\* cos(h / 2^FracBits) * 2^FracBits for 0 <= h <= PiRaw.
CosHalf(h) ==
    (IF 2 * h > PiRaw THEN -1 ELSE 1) * CosQuadrant(IF 2 * h > PiRaw THEN PiRaw - h ELSE h)

\* cos(r / 2^FracBits) * 2^FracBits for 0 <= r < 2 * PiRaw.
CosReduced(r) == CosHalf(IF r > PiRaw THEN 2 * PiRaw - r ELSE r)

FCos(theta) ==
    IF theta.k # "fin" THEN NaN
    ELSE FromRaw(CosReduced((BigModSmall(theta.mag, 2 * PiRaw)
                                * PowMod(Base % (2 * PiRaw), theta.sh, 2 * PiRaw))
                            % (2 * PiRaw)))

(***************************************************************************)
(* The randomness source (R: Rng).  The generator is a full-period linear  *)
(* congruential generator over RngMod values.  `seed` and `log` are not in  *)
(* the program: they record the first state of the generator and every     *)
(* draw made of it (the generator output used, the range asked for and the *)
(* result).                                                                *)
(***************************************************************************)
RngMod == 8
RngMul == 5
RngInc == 3

Rng_new(seed) == [seed |-> seed, state |-> seed, log |-> <<>>]
\* The uniform value of [0, 1) the next draw uses: state / RngMod.
Unit(x) == FromRaw(x * (Scale \div RngMod))
Rng_unit(rng) == Unit(rng.state)
\* The generator output after x.
Step(x) == (RngMul * x + RngInc) % RngMod
Rng_step(rng) == Step(rng.state)

\* One draw of value val for the range [low, high): the value and the source
\* after it.
Rng_draw(rng, low, high, val) ==
    [val |-> val,
     rng |-> [seed  |-> rng.seed,
              state |-> Rng_step(rng),
              log   |-> Append(rng.log,
                               [draw |-> rng.state, low |-> low, high |-> high, val |-> val])]]

\* rng.gen_range(low, high): a value of [low, high), low + unit * (high - low).
gen_range(rng, low, high) ==
    Rng_draw(rng, low, high, FAdd(low, FMul(Rng_unit(rng), FSub(high, low))))

(***************************************************************************)
(* UnitSinusoid                                                            *)
(***************************************************************************)
PI == Small(PiRaw)
PI2 == FMul(Two, PI)

\* UnitSinusoid { frequency, phase }, with p the draw of the phase.
UnitSinusoid_new(frequency, p) ==
    [val |-> [frequency |-> frequency, phase |-> p.val], rng |-> p.rng]

\* A sampler whose phase is drawn below the frequency, not below its reciprocal.
UnitSinusoid_phase_wide(f) ==
    UnitSinusoid_new(f.val, gen_range(f.rng, Zero, f.val))

\* let phase = rng.gen_range(0.0, frequency.recip()), with f the draw of the
\* frequency.
UnitSinusoid_phase(f) ==
    UnitSinusoid_new(f.val, gen_range(f.rng, Zero, FRecip(f.val)))

\* impl Distribution<UnitSinusoid> for Standard:
\* let frequency = rng.gen_range(1.0, 10.0), then the phase.
UnitSinusoid_sample(rng) == UnitSinusoid_phase(gen_range(rng, One, Ten))

haversin(theta) == FDiv(FSub(One, FCos(theta)), Two)

UnitSinusoid_evaluate(self, t) ==
    haversin(FMul(FMul(PI2, self.frequency), FAdd(t, self.phase)))

(***************************************************************************)
(* Meander1D: three sinusoids, <<self.0, self.1, self.2>>.                 *)
(***************************************************************************)
Meander1D_evaluate(self, t) ==
    FDiv(FAdd(FAdd(UnitSinusoid_evaluate(self[1], t),
                   UnitSinusoid_evaluate(self[2], t)),
              UnitSinusoid_evaluate(self[3], t)),
         Three)

Meander1D_new(a, b, c) == [val |-> <<a.val, b.val, c.val>>, rng |-> c.rng]
\* A sampler whose third oscillator draws from the source as the first left it.
Meander1D_third_shared(a, b) == Meander1D_new(a, b, UnitSinusoid_sample(a.rng))
Meander1D_third(a, b) == Meander1D_new(a, b, UnitSinusoid_sample(b.rng))
Meander1D_second(a) == Meander1D_third(a, UnitSinusoid_sample(a.rng))

\* impl Distribution<Meander1D> for Standard:
\* Meander1D(rng.gen(), rng.gen(), rng.gen()), the arguments evaluated left to
\* right.
Meander1D_sample(rng) == Meander1D_second(UnitSinusoid_sample(rng))

(***************************************************************************)
(* Meander<D>: `curves`, a sequence of D Meander1D.                        *)
(***************************************************************************)
GenericArray_put(init, c) == [val |-> Append(init.val, c.val), rng |-> c.rng]
GenericArray_push(init) == GenericArray_put(init, Meander1D_sample(init.rng))

\* GenericArray::generate(|_| rng.gen()): the closure is called for the
\* indices 0, ..., n - 1 in this order.
RECURSIVE GenericArray_generate(_, _)
GenericArray_generate(n, rng) ==
    IF n = 0 THEN [val |-> <<>>, rng |-> rng]
    ELSE GenericArray_push(GenericArray_generate(n - 1, rng))

\* impl Distribution<Meander<D>> for Standard
Meander_sample(n, rng) == GenericArray_generate(n, rng)

\* A map that fills the result from the last index down.
RECURSIVE GenericArray_map_rev(_, _)
GenericArray_map_rev(arr, t) ==
    IF arr = <<>> THEN <<>>
    ELSE GenericArray_map_rev(Tail(arr), t) \o <<Meander1D_evaluate(Head(arr), t)>>

\* GenericArray::map of |c| c.evaluate(t)
RECURSIVE GenericArray_map(_, _)
GenericArray_map(arr, t) ==
    IF arr = <<>> THEN <<>>
    ELSE <<Meander1D_evaluate(Head(arr), t)>> \o GenericArray_map(Tail(arr), t)

\* An evaluate that moves every phase on by t.
Meander_evaluate_mut(self, t) ==
    [self |-> [d \in 1..Len(self) |->
                 [k \in 1..3 |-> [self[d][k] EXCEPT !.phase = FAdd(@, t)]]],
     ret |-> GenericArray_map(self, t)]

\* Meander::evaluate(&self, t): `self` after the call, and the value returned
\* (the map of a clone of self.curves).
Meander_evaluate(self, t) ==
    [self |-> self, ret |-> GenericArray_map(self, t)]

(***************************************************************************)
(* The time-step iterators: (0..).map(move |i| self.evaluate(i as f64 *    *)
(* dt)).  `start` is the field of the RangeFrom<i32>.  An iterator made by *)
(* time_steps borrows the Meander; one made by into_time_steps owns it     *)
(* (`data`).  Three fields are not in the program and only record its      *)
(* history: n, the number of elements the sequence has passed (a natural   *)
(* number of any size); last, the element yielded last; and calls, the     *)
(* number of calls made.                                                   *)
(***************************************************************************)
NoIter == [st |-> "none"]

Iter_new(owned, data, dt) ==
    [st |-> "ok", owned |-> owned, data |-> data, dt |-> dt, start |-> 0,
     n |-> <<>>, last |-> <<>>, calls |-> 0]

time_steps(self, dt) == Iter_new(FALSE, <<>>, dt)
\* An into_time_steps whose range is (1..).
into_time_steps_from_one(self, dt) == [Iter_new(TRUE, self, dt) EXCEPT !.start = 1]
into_time_steps(self, dt) == Iter_new(TRUE, self, dt)

\* A next that yields the successor of `start`.
RangeFrom_next_successor(start, checks) ==
    IF start < I32Max THEN [panic |-> FALSE, item |-> start + 1, start |-> start + 1]
    ELSE [panic |-> TRUE, item |-> start, start |-> start]

\* RangeFrom<i32>::next: the successor of `start` is computed in the call that
\* yields `start`.  With overflow checks (a debug build) the addition panics at
\* i32::MAX, without them (a release build) it wraps.
RangeFrom_next(start, checks) ==
    IF start < I32Max THEN [panic |-> FALSE, item |-> start, start |-> start + 1]
    ELSE IF checks THEN [panic |-> TRUE, item |-> start, start |-> start]
    ELSE [panic |-> FALSE, item |-> start, start |-> I32Min]

\* k calls of RangeFrom<i32>::next, for 0 <= k < 2^31.
RangeFrom_skip(start, k, checks) ==
    IF start < 0 \/ k <= I32Max - start THEN [panic |-> FALSE, start |-> start + k]
    ELSE IF checks THEN [panic |-> TRUE, start |-> I32Max]
    ELSE [panic |-> FALSE, start |-> (start - I32Max - 1) + (k - I32Max - 1)]

\* The closure of the map: |i| self.evaluate(i as f64 * dt)
closure(self, dt, i) == Meander_evaluate(self, FMul(FromI32(i), dt))

Iter_panic(it, self, start) ==
    [it |-> [it EXCEPT !.st = "panicked", !.start = start, !.calls = @ + 1], self |-> self]

\* The iterator after it has yielded the value of ev, and the Meander.
Map_yielded(it, k, start, ev) ==
    [it |-> [it EXCEPT !.start = start, !.n = BigAdd(@, BigOfNat(k + 1)),
                       !.last = ev.ret, !.calls = @ + 1,
                       !.data = IF it.owned THEN ev.self ELSE @],
     self |-> ev.self]

Map_next(it, self, k, nx) ==
    IF nx.panic THEN Iter_panic(it, self, nx.start)
    ELSE Map_yielded(it, k, nx.start, closure(self, it.dt, nx.item))

Map_skipped(it, self, k, checks, sk) ==
    IF sk.panic THEN Iter_panic(it, self, sk.start)
    ELSE Map_next(it, self, k, RangeFrom_next(sk.start, checks))

\* Iterator::nth(k) of the Map (Map has no nth of its own: k + 1 calls of
\* next, the first k results dropped).  The closure has no effect but its
\* result, so the k dropped calls are those of the range.  self is the Meander
\* the closure reads.
Map_nth(it, self, k, checks) ==
    Map_skipped(it, self, k, checks, RangeFrom_skip(it.start, k, checks))

(***************************************************************************)
(* The state machine: one Meander of dimension D sampled from a source     *)
(* of randomness, evaluated and iterated over.                             *)
(***************************************************************************)
MaxD == 2
MaxCalls == 2

Dims == 0..MaxD
Seeds == {0, 1}
\* Slot 1 holds an iterator made by time_steps, slot 2 one made by
\* into_time_steps.
Slots == {1, 2}
BorrowSlots == {1}
OwnedSlots == {2}
\* 2^1023, about 8.99e307.
Huge == [k |-> "fin", neg |-> FALSE, mag |-> <<Base \div 2>>, sh |-> MaxLimbs - 1]
Times == {Small(Scale \div 4), Huge}
Dts == {FromRaw(-(Scale \div 2)), Zero, Small(Scale \div 4)}
Skips == {I32Max - 1}

VARIABLES
    overflow_checks, \* whether the build checks integer overflow
    D,               \* the dimension of the Meander
    rng,             \* the randomness source
    sampled,         \* whether the Meander has been sampled
    curves,          \* Meander.curves
    evalFirst,       \* for each time, the first result of evaluate(time), and
                     \* whether an iterator has been pulled since
    evalLast,        \* the last call of evaluate: its time, its result, whether
                     \* it repeated a call, and whether an iterator was pulled
                     \* since the first call
    iters            \* the iterators

vars == <<overflow_checks, D, rng, sampled, curves, evalFirst, evalLast, iters>>

NoEval == [t |-> NaN, ret |-> <<"none">>, pulled |-> FALSE]

Init ==
    /\ overflow_checks \in BOOLEAN
    /\ D \in Dims
    /\ \E seed \in Seeds : rng = Rng_new(seed)
    /\ sampled = FALSE
    /\ curves = <<>>
    /\ evalFirst = [t \in Times |-> NoEval]
    /\ evalLast = [t |-> NaN, ret |-> <<"none">>, again |-> FALSE, pulled |-> FALSE]
    /\ iters = [sl \in Slots |-> NoIter]

Sampled(m) ==
    /\ curves' = m.val
    /\ rng' = m.rng

\* let m: Meander<D> = rng.gen()
Sample ==
    /\ ~sampled
    /\ sampled' = TRUE
    /\ Sampled(Meander_sample(D, rng))
    /\ UNCHANGED <<overflow_checks, D, evalFirst, evalLast, iters>>

Evaluated(t, ev) ==
    /\ curves' = ev.self
    /\ evalLast' = [t |-> t, ret |-> ev.ret, again |-> evalFirst[t] # NoEval,
                    pulled |-> evalFirst[t].pulled]
    /\ evalFirst' = IF evalFirst[t] = NoEval
                    THEN [evalFirst EXCEPT ![t] = [t |-> t, ret |-> ev.ret, pulled |-> FALSE]]
                    ELSE evalFirst

\* m.evaluate(t)
Evaluate(t) ==
    /\ sampled
    /\ Evaluated(t, Meander_evaluate(curves, t))
    /\ UNCHANGED <<overflow_checks, D, rng, sampled, iters>>

\* iters[sl] = m.time_steps(dt)
TimeSteps(sl, dt) ==
    /\ sampled
    /\ iters' = [iters EXCEPT ![sl] = time_steps(curves, dt)]
    /\ UNCHANGED <<overflow_checks, D, rng, sampled, curves, evalFirst, evalLast>>

\* iters[sl] = m.clone().into_time_steps(dt)
IntoTimeSteps(sl, dt) ==
    /\ sampled
    /\ iters' = [iters EXCEPT ![sl] = into_time_steps(curves, dt)]
    /\ UNCHANGED <<overflow_checks, D, rng, sampled, curves, evalFirst, evalLast>>

Pulled(sl, res) ==
    /\ iters' = [iters EXCEPT ![sl] = res.it]
    /\ curves' = IF iters[sl].owned THEN curves ELSE res.self
    /\ evalFirst' = [t \in Times |->
                        IF evalFirst[t] = NoEval THEN NoEval
                        ELSE [evalFirst[t] EXCEPT !.pulled = TRUE]]

\* iters[sl].nth(k)
Pull(sl, k) ==
    /\ iters[sl].st = "ok"
    /\ iters[sl].calls < MaxCalls
    /\ Pulled(sl, Map_nth(iters[sl], IF iters[sl].owned THEN iters[sl].data ELSE curves,
                          k, overflow_checks))
    /\ UNCHANGED <<overflow_checks, D, rng, sampled, evalLast>>

\* iters[sl].next()
Next_(sl) == Pull(sl, 0)

\* iters[sl].nth(k)
Nth(sl, k) == Pull(sl, k)

\* The Meander and its two kinds of iterators.
Next ==
    \/ Sample
    \/ \E sl \in BorrowSlots, dt \in Dts : TimeSteps(sl, dt)
    \/ \E sl \in OwnedSlots, dt \in Dts : IntoTimeSteps(sl, dt)
    \/ \E sl \in Slots : Next_(sl)
    \/ \E sl \in Slots, k \in Skips : Nth(sl, k)

Spec == Init /\ [][Next]_vars

\* The Meander, its evaluation, and one borrowing iterator.
NextEval ==
    \/ Sample
    \/ \E t \in Times : Evaluate(t)
    \/ \E sl \in BorrowSlots, dt \in Dts : TimeSteps(sl, dt)
    \/ \E sl \in BorrowSlots : Next_(sl)
    \/ \E sl \in BorrowSlots, k \in Skips : Nth(sl, k)

SpecEval == Init /\ [][NextEval]_vars

(***************************************************************************)
(* Properties                                                              *)
(***************************************************************************)
\* The Meander the iterator of slot sl evaluates.
IterSelf(sl) == IF iters[sl].owned THEN iters[sl].data ELSE curves
\* The iterator of slot sl has yielded an element.
HasYielded(sl) == iters[sl].st # "none" /\ iters[sl].n # <<>>
\* evaluate has been called.
HasEvaluated == evalLast.t.k # "nan"
\* The j-th output (from 1) of the generator started at seed.
RECURSIVE StreamAt(_, _)
StreamAt(seed, j) == IF j = 1 THEN seed ELSE Step(StreamAt(seed, j - 1))
\* The position in the draw stream of the frequency of oscillator k of curve d.
DrawOf(d, k) == 6 * (d - 1) + 2 * (k - 1) + 1

\* C1: the element at position n (from 0) of m.time_steps(dt) is
\* m.evaluate(n * dt), for every n >= 0: the element an iterator yielded last
\* is the evaluation at (number of elements passed - 1) * dt.
C1_NthElement ==
    \A sl \in BorrowSlots :
        (iters[sl].st = "ok" /\ iters[sl].n # <<>>) =>
            iters[sl].last =
                Meander_evaluate(curves,
                                 FMul(FromBig(BigSub(iters[sl].n, <<1>>)), iters[sl].dt)).ret

\* C2: no pull of a time_steps or into_time_steps sequence fails or ends the
\* sequence.
C2_NeverFails == \A sl \in Slots : iters[sl].st # "panicked"

\* C3: for the same Meander and the same dt, the sequence of into_time_steps
\* and the sequence of time_steps yield equal elements at every position: when
\* both have passed the same number of elements, the elements they yielded last
\* are equal (and the owning sequence holds the data of the Meander).
C3_SameElements ==
    \A a \in BorrowSlots, b \in OwnedSlots :
        (iters[a].st # "none" /\ iters[b].st # "none") =>
            /\ iters[b].data = curves
            /\ (iters[a].dt = iters[b].dt /\ iters[a].n = iters[b].n)
                   => iters[a].last = iters[b].last

C3_Witness ==
    /\ D >= 1
    /\ iters[1].st = "ok" /\ iters[2].st = "ok"
    /\ iters[1].dt = iters[2].dt /\ ~IsZero(iters[1].dt)
    /\ iters[1].n = iters[2].n
    /\ iters[1].calls >= 2 /\ iters[2].calls >= 2

\* C4: no pull rewinds a sequence: the step index of a sequence never decreases
\* or resets in a pull.
C4_NoRewind ==
    [][\A sl \in Slots :
           (iters[sl].st = "ok" /\ iters'[sl].st = "ok"
                /\ iters'[sl].calls = iters[sl].calls + 1)
               => iters'[sl].start >= iters[sl].start]_vars

\* C5: no operation after construction changes the curves, and evaluate(t)
\* called again with the same t returns what it returned the first time,
\* also with other evaluations and pulls of a borrowing sequence in between.
C5_EvaluateIsPure ==
    [][sampled =>
           /\ curves' = curves
           /\ evalLast'.again => evalLast'.ret = evalFirst'[evalLast'.t].ret]_vars

C5_Witness ==
    /\ D >= 1
    /\ evalLast.again /\ evalLast.pulled
    /\ \E t \in Times : t # evalLast.t /\ evalFirst[t] # NoEval

C7_UnitRange ==
    HasEvaluated =>
        \A i \in 1..Len(evalLast.ret) :
            FLe(Zero, evalLast.ret[i]) /\ FLe(evalLast.ret[i], One)

\* C8 (as the code has it): every sampled frequency is in [1.0, 10.0), that
\* is 1.0 <= frequency < 10.0, and every sampled phase in [0, 1/frequency).
C8_SampledRanges ==
    sampled =>
        \A d \in 1..Len(curves), k \in 1..3 :
            /\ FLe(One, curves[d][k].frequency) /\ FLt(curves[d][k].frequency, Ten)
            /\ FLe(Zero, curves[d][k].phase)
            /\ FLt(curves[d][k].phase, FRecip(curves[d][k].frequency))

C8_Witness ==
    /\ sampled
    /\ \E d \in 1..Len(curves), k \in 1..3 : curves[d][k].frequency = One

\* C8 (as the specification has it): every sampled frequency is in the open
\* interval (1.0, 10.0), and every sampled phase in [0, 1/frequency).
C8_OpenRange ==
    sampled =>
        \A d \in 1..Len(curves), k \in 1..3 :
            /\ FLt(One, curves[d][k].frequency) /\ FLt(curves[d][k].frequency, Ten)
            /\ FLe(Zero, curves[d][k].phase)
            /\ FLt(curves[d][k].phase, FRecip(curves[d][k].frequency))

\* C9: sampling a Meander of dimension D makes exactly 6 * D draws, the j-th
\* draw using the j-th output of the source; oscillator k of curve d takes
\* the draws 6 * d + 2 * k and 6 * d + 2 * k + 1 (d and k from 0), the first
\* for its frequency in [1.0, 10.0) and the second for its phase below the
\* reciprocal of that frequency; nothing is drawn before sampling.
C9_DrawOrder ==
    /\ ~sampled => rng.log = <<>>
    /\ sampled =>
           /\ Len(curves) = D
           /\ Len(rng.log) = 6 * D
           /\ rng.state = StreamAt(rng.seed, 6 * D + 1)
           /\ \A j \in 1..Len(rng.log) : rng.log[j].draw = StreamAt(rng.seed, j)
           /\ \A d \in 1..D, k \in 1..3 :
                  /\ rng.log[DrawOf(d, k)].low = One
                  /\ rng.log[DrawOf(d, k)].high = Ten
                  /\ rng.log[DrawOf(d, k)].val = curves[d][k].frequency
                  /\ curves[d][k].frequency =
                         FAdd(One, FMul(Unit(StreamAt(rng.seed, DrawOf(d, k))), FSub(Ten, One)))
                  /\ rng.log[DrawOf(d, k) + 1].low = Zero
                  /\ rng.log[DrawOf(d, k) + 1].high = FRecip(curves[d][k].frequency)
                  /\ rng.log[DrawOf(d, k) + 1].val = curves[d][k].phase
                  /\ curves[d][k].phase =
                         FMul(Unit(StreamAt(rng.seed, DrawOf(d, k) + 1)),
                              FRecip(curves[d][k].frequency))

C9_Witness == sampled /\ D >= 2 /\ Len(rng.log) >= 12

\* C10: the step index is an i32 that starts at 0 and goes up by 1 in each
\* pull: while a sequence has passed n <= 2^31 - 1 elements (pull numbers up to
\* 2^31 - 2) no pull has failed, the index is n, and the element yielded last is
\* the evaluation at (n - 1) as f64 * dt; a pull fails only at index i32::MAX.
C10_IndexIsI32 ==
    \A sl \in Slots :
        /\ iters[sl].st = "ok" /\ iters[sl].n = <<>> => iters[sl].start = 0
        /\ iters[sl].st = "panicked" => iters[sl].start = I32Max
        /\ (iters[sl].st = "ok" /\ iters[sl].n # <<>>
                /\ BigCmp(iters[sl].n, BigOfNat(I32Max)) <= 0) =>
               /\ iters[sl].start >= 1
               /\ BigOfNat(iters[sl].start) = iters[sl].n
               /\ iters[sl].last =
                      closure(IterSelf(sl), iters[sl].dt, iters[sl].start - 1).ret

C10_Witness ==
    /\ D >= 1
    /\ \E sl \in Slots :
           /\ iters[sl].st = "ok"
           /\ iters[sl].n = BigOfNat(I32Max)
           /\ ~IsZero(iters[sl].dt)

====
